---- MODULE Spec2Model ----
(***************************************************************************)
(* Playback coordinator (PlayerProvider, src/src/contexts/PlayerContext.tsx)*)
(* over the remote session adapter (useSpotifyPlayer, src/unnamed/part_000) *)
(* and the local preview player (one HTMLAudioElement).                     *)
(*                                                                         *)
(* One action is one event-loop task: a consumer call, an SDK event, an     *)
(* audio element event, a timer callback or a promise continuation.  React  *)
(* re-renders between tasks, so every handler reads the state its previous  *)
(* task left, and an effect's set-up and clean-up (the position interval)   *)
(* follow the state they depend on.                                         *)
(*                                                                         *)
(* Units: the adapter's position and duration are milliseconds; the local   *)
(* player's progress and duration, and the merged read model, are seconds.  *)
(* Volumes are percentages (0.5 is 50).                                     *)
(***************************************************************************)
EXTENDS Integers, Sequences, FiniteSets

\* ------------------------------------------------------------------ bounds
MaxQueue == 3
MaxSeek == 2

\* ------------------------------------------------------- program constants
DefaultDuration == 30
InitVolume == 50
TickMs == 1000
MsPerSec == 1000

\* ------------------------------------------------------------ input values
NoTrack == "null"
NoDevice == "null"
NoToken == "null"
\* Access tokens the token service can return.
Tokens == {"t1", "t2"}
Tracks == {"A", "B", "C"}
\* SpotifyTrack.preview_url is optional: C has none.
preview_url(t) == t # "C"
\* Length in seconds of the preview clip behind a track's preview_url.
ClipLen(t) == IF t = "A" THEN 2 ELSE 1
\* duration_ms of a track in a player_state_changed payload.
duration_ms(t) == 2 * TickMs
Volumes == {InitVolume, 80}
Devices == {"dev1"}
SeekTimes == 0 .. MaxSeek
Queues == UNION {[1 .. n -> Tracks] : n \in 0 .. MaxQueue}
\* The queues a consumer passes while the audio element's events are modelled.
FewQueues == {<<>>, <<"A", "B", "C">>, <<"B", "B">>}
\* player_state_changed payloads: null, or paused / position / current_track.
NullPayload == [null |-> TRUE, paused |-> TRUE, position |-> 0, track |-> NoTrack]
Payloads ==
    {NullPayload} \cup
    {[null |-> FALSE, paused |-> p, position |-> pos, track |-> t] :
        p \in BOOLEAN, pos \in {0, TickMs}, t \in {NoTrack, "A"}}

Min(a, b) == IF a < b THEN a ELSE b

VARIABLES
    authenticated,  \* isAuthenticated() when the adapter mounts
    playerRef,      \* playerRef.current is set (the remote player exists)
    state,          \* useSpotifyPlayer's PlayerState
    pendingVol,     \* volumes of awaited playerRef.current.setVolume calls
    localQueue,
    localIndex,
    localTrack,
    previewState,
    audio,          \* the HTMLAudioElement behind audioRef
    pendingPlay,    \* whose audio.play() promise is unsettled
    life,           \* the init effect's closure and the SDK's callbacks
    lastOp          \* history: the last task, its arguments and the
                    \* backend it called

remoteVars == <<authenticated, playerRef, state, pendingVol, life>>
queueVars == <<localQueue, localIndex, localTrack>>
audioVars == <<previewState, audio, pendingPlay>>
vars == <<authenticated, playerRef, state, pendingVol, localQueue, localIndex,
          localTrack, previewState, audio, pendingPlay, life, lastOp>>

\* History records: an event or continuation, and a consumer call with the
\* backend it reached.  A call's arguments are added where it is recorded.
NoOp ==
    [name |-> "init", backend |-> "none", vol |-> 0, from |-> 0,
     track |-> NoTrack, queue |-> <<>>, hasQueue |-> FALSE,
     issued |-> "none", token |-> NoToken]
Event(name) == [NoOp EXCEPT !.name = name]
Call(name, backend) == [NoOp EXCEPT !.name = name, !.backend = backend]

InitState ==
    [deviceId |-> NoDevice, isReady |-> FALSE, isActive |-> FALSE,
     isPaused |-> TRUE, currentTrack |-> NoTrack, position |-> 0,
     duration |-> 0, volume |-> InitVolume]
InitPreviewState ==
    [isPlaying |-> FALSE, progress |-> 0, duration |-> 0, volume |-> InitVolume]
InitAudio ==
    [src |-> NoTrack, playing |-> FALSE, currentTime |-> 0, loaded |-> FALSE,
     volume |-> InitVolume]

\* Mutant of InitEffect: the init effect does not ask isAuthenticated().
InitEffectUnchecked(auth) ==
    [isMounted |-> TRUE, scriptLoaded |-> TRUE, hook |-> "set",
     fetching |-> FALSE, player |-> FALSE, token |-> NoToken,
     challenge |-> FALSE, answer |-> NoToken]

\* The init effect of useSpotifyPlayer, run at mount: without authentication
\* it returns at once; otherwise the SDK script is injected and the global
\* SDK-ready hook is installed.
\*   isMounted     the effect's liveness flag
\*   scriptLoaded  the script element spotify-sdk is in the document
\*   hook          window.onSpotifyWebPlaybackSDKReady: none / set / called
\*   fetching      the hook awaits getValidAccessToken()
\*   player        a Spotify.Player was built and connect() was called
\*   token         the token the hook obtained before building the player
\*   challenge     getOAuthToken awaits getValidAccessToken()
\*   answer        what the current challenge's callback was given
InitEffect(auth) ==
    [isMounted |-> TRUE, scriptLoaded |-> auth,
     hook |-> IF auth THEN "set" ELSE "none",
     fetching |-> FALSE, player |-> FALSE, token |-> NoToken,
     challenge |-> FALSE, answer |-> NoToken]

InitWith(auth) ==
    /\ authenticated = auth
    /\ playerRef = FALSE
    /\ state = InitState
    /\ pendingVol = {}
    /\ localQueue = <<>>
    /\ localIndex = 0
    /\ localTrack = NoTrack
    /\ previewState = InitPreviewState
    /\ audio = InitAudio
    /\ pendingPlay = "none"
    /\ life = InitEffect(auth)
    /\ lastOp = Event("init")

Init == \E auth \in BOOLEAN : InitWith(auth)

\* ------------------------------------------------------- merged read model
\* Mutant of isPremiumPlayer: a device id alone selects the remote backend.
isPremiumPlayerDeviceOnly == state.deviceId # NoDevice

isPremiumPlayer == state.isReady /\ state.deviceId # NoDevice
currentTrack == IF isPremiumPlayer THEN state.currentTrack ELSE localTrack
isPlaying == IF isPremiumPlayer THEN ~state.isPaused ELSE previewState.isPlaying
progress ==
    IF isPremiumPlayer THEN state.position \div MsPerSec
    ELSE previewState.progress
duration ==
    IF isPremiumPlayer THEN state.duration \div MsPerSec
    ELSE IF previewState.duration # 0 THEN previewState.duration
    ELSE DefaultDuration
volume == IF isPremiumPlayer THEN state.volume ELSE previewState.volume
isPremium == isPremiumPlayer


\* ---------------------------------------------- remote session adapter
\* The loaded SDK calls window.onSpotifyWebPlaybackSDKReady once: after
\* teardown the hook returns, otherwise it starts to fetch a token.
SdkReady ==
    /\ life.scriptLoaded
    /\ life.hook = "set"
    /\ life' = [life EXCEPT !.hook = "called", !.fetching = life.isMounted]
    /\ lastOp' = Event("sdkReady")
    /\ UNCHANGED <<authenticated, playerRef, state, pendingVol, queueVars,
                   audioVars>>

\* The hook's getValidAccessToken() returns.  Without a token, or after
\* teardown, the hook returns; otherwise the player is built, its listeners
\* are added, connect() is called and playerRef holds it.
TokenReturned(token) ==
    /\ life.fetching
    /\ IF token # NoToken /\ life.isMounted
       THEN /\ life' = [life EXCEPT !.fetching = FALSE, !.player = TRUE,
                                    !.token = token]
            /\ playerRef' = TRUE
       ELSE /\ life' = [life EXCEPT !.fetching = FALSE]
            /\ UNCHANGED playerRef
    /\ lastOp' = [Event("token_returned") EXCEPT !.token = token]
    /\ UNCHANGED <<authenticated, state, pendingVol, queueVars, audioVars>>

\* The init effect's clean-up (unmount): the flag is cleared, the player is
\* disconnected and playerRef is emptied.
Unmount ==
    /\ authenticated
    /\ life.isMounted
    /\ life' = [life EXCEPT !.isMounted = FALSE]
    /\ playerRef' = FALSE
    /\ lastOp' = Event("unmount")
    /\ UNCHANGED <<authenticated, state, pendingVol, queueVars, audioVars>>

\* Mutant of ChallengeAnswer: the token obtained at construction is reused.
ChallengeAnswerCached(freshToken) == life.token

\* What getOAuthToken hands to the SDK's callback: the token its own call
\* returned (NoToken: the callback is not called).
ChallengeAnswer(freshToken) == freshToken

\* The SDK issues an authorization challenge: getOAuthToken(cb) calls the
\* token service.  One challenge is in flight at a time.
Challenge ==
    /\ life.player
    /\ ~life.challenge
    /\ life' = [life EXCEPT !.challenge = TRUE, !.answer = NoToken]
    /\ lastOp' = Event("challenge")
    /\ UNCHANGED <<authenticated, playerRef, state, pendingVol, queueVars,
                   audioVars>>

\* The challenge's getValidAccessToken() returns freshToken.
ChallengeToken(freshToken) ==
    /\ life.challenge
    /\ life' = [life EXCEPT !.challenge = FALSE,
                            !.answer = ChallengeAnswer(freshToken)]
    /\ lastOp' = [Event("challenge_token") EXCEPT !.token = freshToken]
    /\ UNCHANGED <<authenticated, playerRef, state, pendingVol, queueVars,
                   audioVars>>

\* The SDK's events reach the listeners of the player that was built; each
\* listener returns at once after teardown.
\* Mutant of ReadyEvent: becoming ready also stops the local preview.
ReadyEventPausing(device_id) ==
    /\ life.player
    /\ state' = IF ~life.isMounted THEN state
                ELSE [state EXCEPT !.deviceId = device_id, !.isReady = TRUE]
    /\ audio' = [audio EXCEPT !.playing = FALSE]
    /\ previewState' = [previewState EXCEPT !.isPlaying = FALSE]
    /\ lastOp' = Event("ready")
    /\ UNCHANGED <<authenticated, playerRef, pendingVol, life, queueVars,
                   pendingPlay>>

ReadyEvent(device_id) ==
    /\ life.player
    /\ state' = IF ~life.isMounted THEN state
                ELSE [state EXCEPT !.deviceId = device_id, !.isReady = TRUE]
    /\ lastOp' = Event("ready")
    /\ UNCHANGED <<authenticated, playerRef, pendingVol, life, queueVars,
                   audioVars>>

NotReadyEvent ==
    /\ life.player
    /\ state' = IF ~life.isMounted THEN state
                ELSE [state EXCEPT !.isReady = FALSE]
    /\ lastOp' = Event("not_ready")
    /\ UNCHANGED <<authenticated, playerRef, pendingVol, life, queueVars,
                   audioVars>>

\* Mutant of NullStateChanged: losing focus also clears track and position.
NullStateChangedReset(prev) ==
    [prev EXCEPT !.isActive = FALSE, !.currentTrack = NoTrack, !.position = 0]

\* The listener's update for a null payload.
NullStateChanged(prev) == [prev EXCEPT !.isActive = FALSE]

\* The listener's update for a payload with a state.
StateChanged(prev, playerState) ==
    [prev EXCEPT
        !.isActive = TRUE,
        !.isPaused = playerState.paused,
        !.currentTrack = playerState.track,
        !.position = playerState.position,
        !.duration = IF playerState.track # NoTrack
                     THEN duration_ms(playerState.track) ELSE 0]

\* A payload the SDK can send: its position lies within its track.
WellFormed(playerState) ==
    \/ playerState.null
    \/ playerState.track # NoTrack
    \/ playerState.position = 0

PlayerStateChanged(playerState) ==
    /\ life.player
    /\ WellFormed(playerState)
    /\ state' = IF ~life.isMounted THEN state
                ELSE IF playerState.null THEN NullStateChanged(state)
                ELSE StateChanged(state, playerState)
    /\ lastOp' = Event(IF playerState.null THEN "state_null" ELSE "state_changed")
    /\ UNCHANGED <<authenticated, playerRef, pendingVol, life, queueVars,
                   audioVars>>

\* Mutant of TickPosition: the tick does not clamp to the duration.
TickPositionUnclamped(prev) == prev.position + TickMs

\* The interval's callback: one tick of the position.
TickPosition(prev) == Min(prev.position + TickMs, prev.duration)

\* The interval of the position effect exists while active and not paused;
\* unmounting clears it.
Tick ==
    /\ life.isMounted
    /\ state.isActive
    /\ ~state.isPaused
    /\ state' = [state EXCEPT !.position = TickPosition(state)]
    /\ lastOp' = Event("tick")
    /\ UNCHANGED <<authenticated, playerRef, pendingVol, life, queueVars,
                   audioVars>>

\* The adapter's setVolume up to its await: the SDK call is issued.
RemoteSetVolume(v) == IF playerRef THEN pendingVol \cup {v} ELSE pendingVol

\* The awaited SDK setVolume resolves and the continuation stores the volume.
VolumeResolved(v) ==
    /\ v \in pendingVol
    /\ pendingVol' = pendingVol \ {v}
    /\ state' = [state EXCEPT !.volume = v]
    /\ lastOp' = Event("volume_resolved")
    /\ UNCHANGED <<authenticated, playerRef, life, queueVars, audioVars>>

\* The awaited SDK setVolume rejects: the catch logs.
VolumeRejected(v) ==
    /\ v \in pendingVol
    /\ pendingVol' = pendingVol \ {v}
    /\ lastOp' = Event("volume_rejected")
    /\ UNCHANGED <<authenticated, playerRef, state, life, queueVars, audioVars>>

\* The adapter's returned API called directly.  lastOp.issued records what
\* the method sent: "sdk" (a call on the player), "http" (the play request)
\* or "none".
\* togglePlay / nextTrack / previousTrack / seek: if (playerRef.current).
SdkIssued == IF playerRef THEN "sdk" ELSE "none"

\* Mutant of PlayIssued: play does not look at the device id.
PlayIssuedNoDevice(token) == IF token # NoToken THEN "http" ELSE "none"

\* play: if (!token || !state.deviceId) return; otherwise the PUT is sent.
PlayIssued(token) ==
    IF token # NoToken /\ state.deviceId # NoDevice THEN "http" ELSE "none"

SdkMethods == {"sp_togglePlay", "sp_nextTrack", "sp_previousTrack", "sp_seek"}

\* play(uri): getValidAccessToken() returns token, then the request.
AdapterPlay(token) ==
    /\ lastOp' = [Call("sp_play", "remote") EXCEPT !.issued = PlayIssued(token),
                                                   !.token = token]
    /\ UNCHANGED <<remoteVars, queueVars, audioVars>>

AdapterTransport(method) ==
    /\ lastOp' = [Call(method, "remote") EXCEPT !.issued = SdkIssued]
    /\ UNCHANGED <<remoteVars, queueVars, audioVars>>

AdapterSetVolume(v) ==
    /\ pendingVol' = RemoteSetVolume(v)
    /\ lastOp' = [Call("sp_setVolume", "remote") EXCEPT !.issued = SdkIssued,
                                                        !.vol = v]
    /\ UNCHANGED <<authenticated, playerRef, state, life, queueVars, audioVars>>


\* -------------------------------------------------- playback coordinator
\* Array.prototype.findIndex on ids: the first position (from 0), or -1.
findIndex(queue, track) ==
    LET hits == {i \in 1 .. Len(queue) : queue[i] = track}
    IN  IF hits = {} THEN -1
        ELSE (CHOOSE i \in hits : \A j \in hits : i <= j) - 1

\* Mutant of PlayIndex: findIndex's result is stored as it is.
PlayIndexUnchecked(queue, track) == findIndex(queue, track)

\* The index playTrack stores for a supplied queue.
PlayIndex(queue, track) ==
    LET idx == findIndex(queue, track) IN IF idx >= 0 THEN idx ELSE 0

\* audio.src = url; audio.play(): the element loads the clip from its start
\* and the play promises of an earlier load are rejected.
LoadClip(track) ==
    [audio EXCEPT !.src = track, !.playing = FALSE, !.currentTime = 0,
                  !.loaded = FALSE]

\* The backend playTrack reaches: neither when a track has no preview clip.
PlayBackend(track) ==
    IF isPremiumPlayer THEN "remote"
    ELSE IF preview_url(track) THEN "local" ELSE "none"

\* playTrack without its history record (next and previous call it too).
\* The remote play() sends an HTTP request and changes no adapter state.
DoPlayTrack(track, queue, hasQueue) ==
    /\ localQueue' = IF hasQueue THEN queue ELSE localQueue
    /\ localIndex' = IF hasQueue THEN PlayIndex(queue, track) ELSE localIndex
    /\ localTrack' = track
    /\ IF PlayBackend(track) = "local"
       THEN /\ audio' = LoadClip(track)
            /\ pendingPlay' = "playTrack"
       ELSE UNCHANGED <<audio, pendingPlay>>
    /\ UNCHANGED <<remoteVars, previewState>>

PlayTrack(track, queue, hasQueue) ==
    /\ DoPlayTrack(track, queue, hasQueue)
    /\ lastOp' = [Call("playTrack", PlayBackend(track)) EXCEPT
                      !.track = track, !.hasQueue = hasQueue,
                      !.queue = IF hasQueue THEN queue ELSE <<>>]

TogglePlay ==
    /\ IF isPremiumPlayer
       THEN /\ UNCHANGED audioVars
            /\ lastOp' = Call("togglePlay", "remote")
       ELSE /\ IF previewState.isPlaying
               THEN \* audio.pause() also rejects unsettled play promises
                    /\ audio' = [audio EXCEPT !.playing = FALSE]
                    /\ pendingPlay' = "none"
                    /\ previewState' = [previewState EXCEPT !.isPlaying = FALSE]
               ELSE /\ pendingPlay' =
                          IF pendingPlay = "playTrack" THEN "playTrack" ELSE "toggle"
                    /\ UNCHANGED <<audio, previewState>>
            /\ lastOp' = Call("togglePlay", "local")
    /\ UNCHANGED <<remoteVars, queueVars>>

\* Mutant of nextIdx: the index stops at the last track.
nextIdxNoWrap(queue, index) == Min(index + 1, Len(queue) - 1)

nextIdx(queue, index) == (index + 1) % Len(queue)

HandleNextTrack ==
    /\ IF isPremiumPlayer
       THEN /\ UNCHANGED <<remoteVars, queueVars, audioVars>>
            /\ lastOp' = [Call("next", "remote") EXCEPT !.from = localIndex]
       ELSE IF Len(localQueue) > 0
       THEN /\ DoPlayTrack(localQueue[nextIdx(localQueue, localIndex) + 1],
                           localQueue, TRUE)
            /\ lastOp' = [Call("next", "local") EXCEPT !.from = localIndex]
       ELSE /\ UNCHANGED <<remoteVars, queueVars, audioVars>>
            /\ lastOp' = [Call("next", "none") EXCEPT !.from = localIndex]

prevIdx(queue, index) == IF index = 0 THEN Len(queue) - 1 ELSE index - 1

HandlePreviousTrack ==
    /\ IF isPremiumPlayer
       THEN /\ UNCHANGED <<remoteVars, queueVars, audioVars>>
            /\ lastOp' = Call("previous", "remote")
       ELSE IF Len(localQueue) > 0
       THEN /\ DoPlayTrack(localQueue[prevIdx(localQueue, localIndex) + 1],
                           localQueue, TRUE)
            /\ lastOp' = Call("previous", "local")
       ELSE /\ UNCHANGED <<remoteVars, queueVars, audioVars>>
            /\ lastOp' = Call("previous", "none")

\* Setting audio.currentTime: a loaded clip seeks within its length; before
\* that the element keeps the time as its start position.
SeekAudio(time) ==
    [audio EXCEPT !.currentTime =
        IF audio.loaded THEN Min(time, ClipLen(audio.src)) ELSE time]

Seek(time) ==
    /\ IF isPremiumPlayer
       THEN /\ UNCHANGED audioVars
            /\ lastOp' = Call("seek", "remote")
       ELSE /\ audio' = SeekAudio(time)
            /\ previewState' = [previewState EXCEPT !.progress = time]
            /\ UNCHANGED pendingPlay
            /\ lastOp' = Call("seek", "local")
    /\ UNCHANGED <<remoteVars, queueVars>>

\* Mutant of HandleSetVolume: the local volume is written on both branches.
HandleSetVolumeBoth(v) ==
    /\ pendingVol' = IF isPremiumPlayer THEN RemoteSetVolume(v) ELSE pendingVol
    /\ audio' = [audio EXCEPT !.volume = v]
    /\ previewState' = [previewState EXCEPT !.volume = v]
    /\ lastOp' = [Call("setVolume", IF isPremiumPlayer THEN "remote" ELSE "local")
                      EXCEPT !.vol = v]
    /\ UNCHANGED <<authenticated, playerRef, state, life, queueVars,
                   pendingPlay>>

HandleSetVolume(v) ==
    /\ IF isPremiumPlayer
       THEN /\ pendingVol' = RemoteSetVolume(v)
            /\ UNCHANGED audioVars
            /\ lastOp' = [Call("setVolume", "remote") EXCEPT !.vol = v]
       ELSE /\ audio' = [audio EXCEPT !.volume = v]
            /\ previewState' = [previewState EXCEPT !.volume = v]
            /\ UNCHANGED <<pendingVol, pendingPlay>>
            /\ lastOp' = [Call("setVolume", "local") EXCEPT !.vol = v]
    /\ UNCHANGED <<authenticated, playerRef, state, life, queueVars>>

\* ------------------------------------------- audio element and listeners
\* loadedmetadata: the clip's length is known; handleLoadedMetadata stores it.
LoadedMetadata ==
    /\ audio.src # NoTrack
    /\ ~audio.loaded
    /\ audio' = [audio EXCEPT !.loaded = TRUE,
                     !.currentTime = Min(audio.currentTime, ClipLen(audio.src))]
    /\ previewState' = [previewState EXCEPT !.duration = ClipLen(audio.src)]
    /\ lastOp' = Event("loadedmetadata")
    /\ UNCHANGED <<remoteVars, queueVars, pendingPlay>>

\* An unsettled audio.play() resolves: the clip sounds (from its start when
\* it had ended) and the caller's then() runs.
PlayResolved ==
    /\ pendingPlay # "none"
    /\ audio.src # NoTrack
    /\ audio.loaded
    /\ audio' = [audio EXCEPT !.playing = TRUE,
                     !.currentTime = IF audio.currentTime = ClipLen(audio.src)
                                     THEN 0 ELSE audio.currentTime]
    /\ previewState' =
          IF pendingPlay = "playTrack"
          THEN [previewState EXCEPT !.isPlaying = TRUE, !.progress = 0]
          ELSE IF pendingPlay = "toggle"
          THEN [previewState EXCEPT !.isPlaying = TRUE]
          ELSE previewState
    /\ pendingPlay' = "none"
    /\ lastOp' = Event("play_resolved")
    /\ UNCHANGED <<remoteVars, queueVars>>

\* An unsettled audio.play() rejects: catch(console.error).
PlayRejected ==
    /\ pendingPlay # "none"
    /\ pendingPlay' = "none"
    /\ lastOp' = Event("play_rejected")
    /\ UNCHANGED <<remoteVars, queueVars, previewState, audio>>

\* error: the clip fails to load or to play on.  The element stops, its
\* unsettled play promises reject (the catch logs) and handleError runs.
AudioError ==
    /\ audio.src # NoTrack
    /\ audio' = [audio EXCEPT !.playing = FALSE]
    /\ pendingPlay' = "none"
    /\ previewState' = [previewState EXCEPT !.isPlaying = FALSE]
    /\ lastOp' = Event("error")
    /\ UNCHANGED <<remoteVars, queueVars>>

\* Playback moves the clip's position on by a second.
AudioAdvance ==
    /\ audio.playing
    /\ audio.currentTime < ClipLen(audio.src)
    /\ audio' = [audio EXCEPT !.currentTime = audio.currentTime + 1]
    /\ lastOp' = Event("advance")
    /\ UNCHANGED <<remoteVars, queueVars, previewState, pendingPlay>>

\* timeupdate: handleTimeUpdate copies audio.currentTime.
TimeUpdate ==
    /\ audio.src # NoTrack
    /\ previewState' = [previewState EXCEPT !.progress = audio.currentTime]
    /\ lastOp' = Event("timeupdate")
    /\ UNCHANGED <<remoteVars, queueVars, audio, pendingPlay>>

\* Mutant of Ended: the next clip is started but the index is not moved.
EndedKeepingIndex ==
    /\ audio.playing
    /\ audio.currentTime = ClipLen(audio.src)
    /\ LET n == Len(localQueue)
           idx == nextIdx(localQueue, localIndex)
           advance == n > 0 /\ preview_url(localQueue[idx + 1])
       IN  IF advance
           THEN /\ audio' = LoadClip(localQueue[idx + 1])
                /\ pendingPlay' = "ended"
                /\ localTrack' = localQueue[idx + 1]
                /\ previewState' = [previewState EXCEPT !.isPlaying = TRUE]
                /\ UNCHANGED <<localQueue, localIndex>>
           ELSE /\ audio' = [audio EXCEPT !.playing = FALSE]
                /\ previewState' = [previewState EXCEPT !.isPlaying = FALSE]
                /\ UNCHANGED <<queueVars, pendingPlay>>
    /\ lastOp' = Event("ended")
    /\ UNCHANGED remoteVars

\* ended: the clip reached its end; handleEnded.
Ended ==
    /\ audio.playing
    /\ audio.currentTime = ClipLen(audio.src)
    /\ LET n == Len(localQueue)
           idx == nextIdx(localQueue, localIndex)
           advance == n > 0 /\ preview_url(localQueue[idx + 1])
       IN  IF advance
           THEN /\ audio' = LoadClip(localQueue[idx + 1])
                /\ pendingPlay' = "ended"
                /\ localIndex' = idx
                /\ localTrack' = localQueue[idx + 1]
                /\ previewState' = [previewState EXCEPT !.isPlaying = TRUE]
                /\ UNCHANGED localQueue
           ELSE /\ audio' = [audio EXCEPT !.playing = FALSE]
                /\ previewState' = [previewState EXCEPT !.isPlaying = FALSE]
                /\ UNCHANGED <<queueVars, pendingPlay>>
    /\ lastOp' = Event("ended")
    /\ UNCHANGED remoteVars


\* ------------------------------------------------------- specifications
\* The tokens the hook's fetch returns where challenges are not modelled.
HookTokens == {NoToken, "t1"}

RemoteEvents ==
    \/ SdkReady
    \/ \E token \in HookTokens : TokenReturned(token)
    \/ \E d \in Devices : ReadyEvent(d)
    \/ NotReadyEvent
    \/ \E playerState \in Payloads : PlayerStateChanged(playerState)
    \/ Tick
    \/ \E v \in Volumes : VolumeResolved(v)
    \/ \E v \in Volumes : VolumeRejected(v)

AudioEvents ==
    \/ LoadedMetadata
    \/ PlayResolved
    \/ PlayRejected
    \/ AudioError
    \/ AudioAdvance
    \/ TimeUpdate
    \/ Ended

\* The consumer's calls, with arguments from the given sets.
Calls(tracks, queues, times) ==
    \/ \E t \in tracks, q \in queues : PlayTrack(t, q, TRUE)
    \/ \E t \in tracks : PlayTrack(t, <<>>, FALSE)
    \/ TogglePlay
    \/ HandleNextTrack
    \/ HandlePreviousTrack
    \/ \E time \in times : Seek(time)
    \/ \E v \in Volumes : HandleSetVolume(v)

\* The whole system.  Its state space is the product of the queue, the audio
\* element and the remote session; TLC explores the three restrictions that
\* follow, each a set of behaviours of Spec (its initial states and steps
\* are initial states and steps of Spec).
AdapterEvents ==
    \/ Unmount
    \/ Challenge
    \/ \E freshToken \in Tokens \cup {NoToken} : ChallengeToken(freshToken)
    \/ \E token \in Tokens \cup {NoToken} : TokenReturned(token)
    \/ \E token \in Tokens \cup {NoToken} : AdapterPlay(token)
    \/ \E method \in SdkMethods : AdapterTransport(method)
    \/ \E v \in Volumes : AdapterSetVolume(v)

Next ==
    \/ RemoteEvents
    \/ AdapterEvents
    \/ AudioEvents
    \/ Calls(Tracks, Queues, SeekTimes)
Spec == Init /\ [][Next]_vars


\* The queue and its index under changing authority: every queue a consumer
\* can pass, the calls that move the index, and the remote session coming
\* and going.  The audio element's events and the remote transport state
\* write neither the queue, the index, the requested track nor the
\* authority, and are left to the specifications below.
InitQueue == InitWith(TRUE)
NextQueue ==
    \/ SdkReady
    \/ \E token \in HookTokens : TokenReturned(token)
    \/ \E d \in Devices : ReadyEvent(d)
    \/ NotReadyEvent
    \/ \E t \in Tracks, q \in Queues : PlayTrack(t, q, TRUE)
    \/ \E t \in Tracks : PlayTrack(t, <<>>, FALSE)
    \/ HandleNextTrack
    \/ HandlePreviousTrack
SpecQueue == InitQueue /\ [][NextQueue]_vars

\* The local preview player of a session that is not authenticated: the
\* remote adapter never initialises, so the local backend stays authoritative.
InitLocal == InitWith(FALSE)
NextLocal == AudioEvents \/ Calls(Tracks, FewQueues, SeekTimes)
SpecLocal == InitLocal /\ [][NextLocal]_vars

\* The remote session of an authenticated caller: every SDK event, timer and
\* continuation of the adapter, and every consumer call under both
\* authorities.  The audio element raises no event here.
InitRemote == InitWith(TRUE)
NextRemote == RemoteEvents \/ Calls({"A", "C"}, {<<"A", "C">>}, {1})
SpecRemote == InitRemote /\ [][NextRemote]_vars

\* The adapter alone, mounted with or without authentication: its life cycle
\* from mount to unmount, the SDK's events and challenges, and its methods
\* called directly.
InitAdapter == Init
NextAdapter ==
    \/ SdkReady
    \/ \E token \in Tokens \cup {NoToken} : TokenReturned(token)
    \/ Unmount
    \/ Challenge
    \/ \E freshToken \in Tokens \cup {NoToken} : ChallengeToken(freshToken)
    \/ \E d \in Devices : ReadyEvent(d)
    \/ NotReadyEvent
    \/ \E playerState \in Payloads : PlayerStateChanged(playerState)
    \/ Tick
    \/ \E token \in Tokens \cup {NoToken} : AdapterPlay(token)
    \/ \E method \in SdkMethods : AdapterTransport(method)
    \/ \E v \in Volumes : AdapterSetVolume(v)
    \/ \E v \in Volumes : VolumeResolved(v)
    \/ \E v \in Volumes : VolumeRejected(v)
SpecAdapter == InitAdapter /\ [][NextAdapter]_vars

\* Authority changing hands during playback: an authenticated adapter whose
\* device comes and goes, the audio element's events and the coordinator's
\* calls on one queue.
InitSwitch == InitWith(TRUE)
NextSwitch ==
    \/ SdkReady
    \/ \E token \in HookTokens : TokenReturned(token)
    \/ \E d \in Devices : ReadyEvent(d)
    \/ NotReadyEvent
    \/ AudioEvents
    \/ Calls({"A", "B"}, {<<"A", "B">>}, {1})
SpecSwitch == InitSwitch /\ [][NextSwitch]_vars

\* Queues whose tracks have distinct ids.
DistinctQueues ==
    {q \in Queues : \A i, j \in 1 .. Len(q) : q[i] = q[j] => i = j}

\* The local player moving through a queue of distinct tracks: playTrack of
\* a track of the queue it passes, next, previous, and clips playing to
\* their end.
InitAdvance == InitWith(FALSE)
NextAdvance ==
    \/ \E q \in DistinctQueues : \E i \in 1 .. Len(q) : PlayTrack(q[i], q, TRUE)
    \/ HandleNextTrack
    \/ HandlePreviousTrack
    \/ LoadedMetadata
    \/ PlayResolved
    \/ AudioAdvance
    \/ Ended
SpecAdvance == InitAdvance /\ [][NextAdvance]_vars


\* ================================================================ claims
DistinctIds(queue) ==
    \A i, j \in 1 .. Len(queue) : queue[i] = queue[j] => i = j
LocalCall(op, name) == op.name = name /\ op.backend = "local"

\* C1 (as stated): while the local backend is authoritative, on every queue
\* of length n > 0 next() moves currentIndex from i to (i+1) mod n,
\* previous() moves it to (i-1) mod n, and previous() right after next()
\* brings it back to the index next() started from.
C1_NextThenPrevious ==
    [][LET n == Len(localQueue) IN
       /\ LocalCall(lastOp', "next") => localIndex' = (localIndex + 1) % n
       /\ LocalCall(lastOp', "previous") => localIndex' = (localIndex - 1) % n
       /\ (LocalCall(lastOp, "next") /\ LocalCall(lastOp', "previous"))
              => localIndex' = lastOp.from]_vars

\* C2: while the local backend is authoritative and the queue holds n > 0
\* tracks with distinct ids, next() moves currentIndex from i to (i+1) mod n,
\* wrapping from the last index to 0, keeps the queue, and the merged
\* currentTrack is the queue element at the new index.
C2_NextAdvances ==
    [][(/\ lastOp'.name = "next"
        /\ ~(state.isReady /\ state.deviceId # NoDevice)
        /\ Len(localQueue) > 0
        /\ DistinctIds(localQueue))
       => /\ localQueue' = localQueue
          /\ localIndex' = (localIndex + 1) % Len(localQueue)
          /\ localIndex = Len(localQueue) - 1 => localIndex' = 0
          /\ currentTrack' = localQueue[localIndex' + 1]]_vars

\* C2 witness: next() has wrapped from the last index of a three-track queue
\* with distinct ids to index 0.
C2_Witness ==
    /\ LocalCall(lastOp, "next")
    /\ Len(localQueue) = 3
    /\ DistinctIds(localQueue)
    /\ lastOp.from = 2
    /\ localIndex = 0
    /\ currentTrack = localQueue[1]

\* C3: after playTrack(track, queue) the queue is the supplied one, and
\* currentIndex is 0 when no element of the queue has track's id, and
\* otherwise the first position of the queue that holds it.
C3_PlayTrackIndex ==
    (lastOp.name = "playTrack" /\ lastOp.hasQueue) =>
        LET q == lastOp.queue
            present == \E i \in 1 .. Len(q) : q[i] = lastOp.track
        IN  /\ localQueue = q
            /\ localTrack = lastOp.track
            /\ ~present => localIndex = 0
            /\ present => /\ localIndex \in 0 .. Len(q) - 1
                          /\ q[localIndex + 1] = lastOp.track
                          /\ \A j \in 1 .. localIndex : q[j] # lastOp.track

\* C3 witness: playTrack was called with a non-empty queue that does not
\* hold the track, and the index is 0.
C3_Witness ==
    /\ lastOp.name = "playTrack"
    /\ lastOp.hasQueue
    /\ Len(lastOp.queue) > 1
    /\ \A i \in 1 .. Len(lastOp.queue) : lastOp.queue[i] # lastOp.track
    /\ localQueue = lastOp.queue
    /\ localIndex = 0


\* C4 (as stated): while the local backend is authoritative, after
\* playTrack with a track that has no preview URL the merged isPlaying is
\* false, whatever was playing before the call.
C4_NoPreviewNotPlaying ==
    (/\ lastOp.name = "playTrack"
     /\ ~preview_url(lastOp.track)
     /\ ~(state.isReady /\ state.deviceId # NoDevice))
    => ~isPlaying

\* C5 (as stated): in every reachable state the merged progress lies
\* between 0 and the merged duration.
C5_ProgressClamped == 0 <= progress /\ progress <= duration

\* C10 (as stated): a clip-end event with a non-empty queue of n tracks at
\* index i moves currentIndex to (i+1) mod n and the requested track to that
\* queue element; when that track has no preview URL nothing is started and
\* isPlaying is false.
C10_EndedAdvances ==
    [][(lastOp'.name = "ended" /\ Len(localQueue) > 0)
       => LET idx == (localIndex + 1) % Len(localQueue)
          IN  /\ localIndex' = idx
              /\ localTrack' = localQueue[idx + 1]
              /\ ~preview_url(localQueue[idx + 1])
                     => /\ ~previewState'.isPlaying
                        /\ ~audio'.playing
                        /\ pendingPlay' = "none"]_vars


RemoteReady == state.isReady /\ state.deviceId # NoDevice
CallNames ==
    {"playTrack", "togglePlay", "next", "previous", "seek", "setVolume"}

\* C6: the authority flag the coordinator exposes equals (remote.isReady and
\* a device id is present) after every task; each of the six calls reaches
\* the remote backend exactly when that held as the call was made; and a
\* ready event turns the flag on, a not_ready event turns it off, for the
\* next read or call.
C6_AuthorityDispatch ==
    [][/\ isPremium' = (state'.isReady /\ state'.deviceId # NoDevice)
       /\ lastOp'.name \in CallNames
              => ((lastOp'.backend = "remote") <=> RemoteReady)
       /\ lastOp'.name = "ready" => isPremium'
       /\ lastOp'.name = "not_ready" => ~isPremium']_vars

\* C6 witness: after a not_ready event the device id is still present, and
\* a call has gone to the local backend.
C6_Witness ==
    /\ lastOp.name = "togglePlay"
    /\ lastOp.backend = "local"
    /\ state.deviceId # NoDevice
    /\ ~state.isReady

\* C7: while the remote is ready with a device id, setVolume(v) issues the
\* remote player's setVolume(v) and leaves the audio element and the local
\* preview state as they were; otherwise it writes v to the audio element's
\* volume and the local volume state, issues no remote call and changes
\* nothing else.
C7_SetVolumeFrame ==
    [][lastOp'.name = "setVolume" =>
         IF RemoteReady
         THEN /\ lastOp'.backend = "remote"
              /\ lastOp'.vol \in pendingVol'
              /\ audio' = audio
              /\ previewState' = previewState
         ELSE /\ lastOp'.backend = "local"
              /\ pendingVol' = pendingVol
              /\ state' = state
              /\ audio' = [audio EXCEPT !.volume = lastOp'.vol]
              /\ previewState' = [previewState EXCEPT !.volume = lastOp'.vol]
              /\ UNCHANGED <<queueVars, pendingPlay>>]_vars

\* C7 witness: a remote setVolume(v) is in flight with v different from the
\* audio element's volume and from the local volume state.
C7_Witness ==
    /\ lastOp.name = "setVolume"
    /\ lastOp.backend = "remote"
    /\ lastOp.vol \in pendingVol
    /\ lastOp.vol # audio.volume
    /\ lastOp.vol # previewState.volume

\* C8 (as stated): a null player_state_changed only sets isActive to false,
\* and the task that follows it, unless it is a non-null
\* player_state_changed, leaves currentTrack, position, duration, isPaused,
\* deviceId and isReady unchanged.
C8_NullPayloadFreeze ==
    [][/\ lastOp'.name = "state_null" => state' = [state EXCEPT !.isActive = FALSE]
       /\ (lastOp.name = "state_null" /\ lastOp'.name # "state_changed")
              => /\ state'.currentTrack = state.currentTrack
                 /\ state'.position = state.position
                 /\ state'.duration = state.duration
                 /\ state'.isPaused = state.isPaused
                 /\ state'.deviceId = state.deviceId
                 /\ state'.isReady = state.isReady]_vars

\* C8 (amended): a null player_state_changed only sets isActive to false;
\* while isActive is false, every task other than a non-null
\* player_state_changed leaves currentTrack, position, duration and isPaused
\* unchanged and isActive false (the tick does not run), and deviceId and
\* isReady change only by a ready or not_ready event.
C8_NullPayloadFrame ==
    [][/\ lastOp'.name = "state_null" => state' = [state EXCEPT !.isActive = FALSE]
       /\ (~state.isActive /\ lastOp'.name # "state_changed")
              => /\ state'.currentTrack = state.currentTrack
                 /\ state'.position = state.position
                 /\ state'.duration = state.duration
                 /\ state'.isPaused = state.isPaused
                 /\ ~state'.isActive
                 /\ lastOp'.name \notin {"ready", "not_ready"}
                        => /\ state'.deviceId = state.deviceId
                           /\ state'.isReady = state.isReady
       /\ lastOp'.name = "tick" => state.isActive]_vars

\* C8 witness: a null payload arrived while a track was playing part-way:
\* isActive is false, the track, its position and isPaused = false remain.
C8_Witness ==
    /\ lastOp.name = "state_null"
    /\ ~state.isActive
    /\ ~state.isPaused
    /\ state.currentTrack # NoTrack
    /\ state.position > 0
    /\ state.position < state.duration

\* C9 (as stated): while the remote backend is authoritative, after a null
\* player_state_changed the merged isPlaying is false.
C9_NullPayloadNotPlaying ==
    (lastOp.name = "state_null" /\ RemoteReady) => ~isPlaying


\* C11 (as stated): once the adapter is torn down, no step changes the
\* adapter's state, and no remote player is created or connected.
C11_TeardownFreeze ==
    [][~life.isMounted =>
        /\ state' = state
        /\ playerRef' = playerRef
        /\ life'.player = life.player]_vars

\* C12 (as stated): while the local player is authoritative, an error event
\* of the audio element, or the rejection of a play request that playTrack
\* or togglePlay started, leaves the merged isPlaying false.
C12_FailureNotPlaying ==
    [][(/\ ~isPremiumPlayer
        /\ \/ lastOp'.name = "error"
           \/ /\ lastOp'.name = "play_rejected"
              /\ pendingPlay \in {"playTrack", "toggle"})
       => ~isPlaying']_vars

AdapterNames == SdkMethods \cup {"sp_play", "sp_setVolume"}

\* No remote device is connected for the method: play needs a device id, the
\* other methods the player handle.
NotConnected(name) ==
    IF name = "sp_play" THEN state.deviceId = NoDevice ELSE ~playerRef

\* C13: a transport method of the adapter called while no remote device is
\* connected sends nothing (no SDK call, no HTTP request), starts no
\* continuation and changes no adapter state.
C13_NotConnectedNoOp ==
    [][(lastOp'.name \in AdapterNames /\ NotConnected(lastOp'.name)) =>
        /\ lastOp'.issued = "none"
        /\ UNCHANGED remoteVars]_vars

\* C13's case: play was called with a valid token on an adapter whose player
\* exists but has no device id yet, and sent nothing.
C13_Witness ==
    /\ lastOp.name = "sp_play"
    /\ lastOp.token # NoToken
    /\ life.player
    /\ state.deviceId = NoDevice
    /\ lastOp.issued = "none"

\* C14: a challenge is answered only by the step in which the token service
\* call made for that challenge returns, and only with the token that call
\* returned; a null token leaves the challenge unanswered.
C14_FreshToken ==
    [][/\ lastOp'.name = "challenge_token" =>
            /\ life.challenge
            /\ life.answer = NoToken
            /\ life'.answer = lastOp'.token
       /\ life'.answer # life.answer =>
            \/ lastOp'.name = "challenge_token"
            \/ lastOp'.name = "challenge" /\ life'.answer = NoToken]_vars

\* C14's case: a challenge was answered with the token its own call
\* returned, which is not the token obtained at player construction.
C14_Witness ==
    /\ lastOp.name = "challenge_token"
    /\ life.token # NoToken
    /\ life.answer # NoToken
    /\ life.answer # life.token

\* C15: an adapter mounted without authentication never loads the SDK
\* script, installs no SDK-ready hook, builds no player, is never ready, has
\* no device id, and so the local player stays authoritative.
C15_UnauthenticatedNoOp ==
    ~authenticated =>
        /\ ~life.scriptLoaded
        /\ life.hook = "none"
        /\ ~life.fetching
        /\ ~life.player
        /\ ~playerRef
        /\ ~state.isReady
        /\ state.deviceId = NoDevice
        /\ ~isPremiumPlayer

\* C15's case: the unauthenticated adapter has been running and its methods
\* have been called.
C15_Witness ==
    /\ ~authenticated
    /\ lastOp.name = "sp_setVolume"

\* C16 (as stated): currentIndex is a valid index of a non-empty queue
\* (0 <= currentIndex < length) and is -1 when the queue is empty.
C16_IndexValid ==
    IF Len(localQueue) = 0
    THEN localIndex = -1
    ELSE 0 <= localIndex /\ localIndex < Len(localQueue)

\* C17: a ready or not_ready event sends nothing to either backend and
\* leaves the queue, currentIndex, the last requested track, the audio
\* element, its unsettled play request, the local player's state, the
\* adapter's pending calls and the adapter's transport fields unchanged.
C17_AuthorityChangeFrame ==
    [][lastOp'.name \in {"ready", "not_ready"} =>
        /\ UNCHANGED <<queueVars, audioVars, pendingVol, playerRef>>
        /\ lastOp'.issued = "none"
        /\ lastOp'.backend = "none"
        /\ state' = [state EXCEPT !.isReady = state'.isReady,
                                  !.deviceId = state'.deviceId]]_vars

\* C17's case: the remote became authoritative by a ready event while a
\* preview clip was playing on the local player.
C17_Witness ==
    /\ lastOp.name = "ready"
    /\ isPremiumPlayer
    /\ audio.playing
    /\ previewState.isPlaying
    /\ localTrack # NoTrack

\* C18: a tick happens only while the adapter is active and not paused and
\* sets position to min(position + 1000, duration); while paused or inactive
\* the position changes only by a non-null player_state_changed event.
C18_TickAdvance ==
    [][/\ lastOp'.name = "tick" =>
            /\ state.isActive
            /\ ~state.isPaused
            /\ state'.position = Min(state.position + TickMs, state.duration)
       /\ ((~state.isActive \/ state.isPaused)
               /\ state'.position # state.position) =>
            lastOp'.name = "state_changed"]_vars

\* C18's case: ticks have carried the position to the end of a track, where
\* the next tick is held at the duration.
C18_Witness ==
    /\ lastOp.name = "tick"
    /\ state.isActive
    /\ ~state.isPaused
    /\ state.duration > 0
    /\ state.position = state.duration

\* C19 (as stated): whenever the remote backend is authoritative, the local
\* audio element is not playing.
C19_RemoteSilencesLocal == isPremiumPlayer => ~audio.playing

\* C20: while the local player is authoritative and the queue's ids are
\* distinct, after playTrack of a track of its queue, next, previous and
\* clip ends, the last requested track is the queue element at currentIndex.
C20_TrackAtIndex ==
    (~isPremiumPlayer /\ Len(localQueue) > 0 /\ DistinctIds(localQueue)) =>
        /\ 0 <= localIndex
        /\ localIndex < Len(localQueue)
        /\ localTrack = localQueue[localIndex + 1]

\* C20's case: a clip played to its end on the last track of a queue and the
\* player wrapped to the first track.
C20_Witness ==
    /\ lastOp.name = "ended"
    /\ pendingPlay = "ended"
    /\ Len(localQueue) >= 2
    /\ localIndex = 0
    /\ localTrack = localQueue[1]

====
